---- MODULE Spec2Model ----
\* Model of hamilton/plugins/h_pandas.py: the pandas with_columns decorator.
\* One decorator instance is constructed and then driven through its entry
\* points (validate, get_initial_nodes, get_subdag_nodes, chain_subdag_nodes),
\* and the merge node it builds is executed on a table.
EXTENDS Integers, Sequences, FiniteSets, TLC

VARIABLES pc, args, self, build, ret

vars == <<pc, args, self, build, ret>>

-----------------------------------------------------------------------------
\* Bounds of the model.

MaxCols == 2
MaxSelect == 2
MaxNodes == 2

-----------------------------------------------------------------------------
\* Python values.

\* Optional values: None is the empty tuple, a present value x is <<x>>.
None == <<>>
Some(x) == <<x>>
Val(o) == o[1]

Range(s) == {s[i] : i \in 1..Len(s)}

SeqsUpTo(S, n) == UNION {[1..k -> S] : k \in 0..n}

IsUnique(s) == \A i, j \in 1..Len(s) : s[i] = s[j] => i = j

EmptyMap == [n \in {} |-> "int"]

\* The table type of the pandas plugin and the types a declaration can carry.
DATAFRAME_TYPE == "DataFrame"
COLUMN_TYPE == "Series"
OTHER_TYPE == "int"

get_column_type_from_df_type(df_type) ==
    IF df_type = DATAFRAME_TYPE THEN COLUMN_TYPE ELSE "unregistered"

\* node.Node(name, typ, callabl, input_types); the callable of the merge node
\* is new_callable below, its closure variable inject_parameter is the one
\* the build holds.
Node(name, typ, input_types) ==
    [name |-> name, typ |-> typ, input_types |-> input_types]

NodeNamesOf(nodes) == [i \in 1..Len(nodes) |-> nodes[i].name]

-----------------------------------------------------------------------------
\* Input universes.

ColNames == {"a", "b"}
SelNames == {"a", "df"}
ParamNames == {"df", "x"}
TableCols == {"a", "c"}

ColumnLists == SeqsUpTo(ColNames, MaxCols)
SelectLists == SeqsUpTo(SelNames, MaxSelect)

\* A target function: its parameters in declaration order, <<name, type>>,
\* no name twice.
Fns ==
    {f \in SeqsUpTo(ParamNames \X {DATAFRAME_TYPE, OTHER_TYPE}, Cardinality(ParamNames)) :
        \A i, j \in 1..Len(f) : f[i][1] = f[j][1] => i = j}

FnParamNames(fn) == {fn[i][1] : i \in 1..Len(fn)}

\* typing.get_type_hints(fn): parameter name -> declared type.
get_type_hints(fn) ==
    [n \in FnParamNames(fn) |-> fn[CHOOSE i \in 1..Len(fn) : fn[i][1] = n][2]]

\* The params mapping handed to get_initial_nodes by the caller: one declared
\* type per parameter of fn.
ParamMaps(fn) == [FnParamNames(fn) -> {DATAFRAME_TYPE, OTHER_TYPE}]

\* Nodes that subdag.collect_nodes can yield for the configured operations.
OpNames == {"a", "_append"}
OpNodes == {Node(n, t, EmptyMap) : n \in OpNames, t \in {COLUMN_TYPE, OTHER_TYPE}}
NodeLists == SeqsUpTo(OpNodes, MaxNodes)

\* Tables: column name -> value. Values already in a table are 0, values
\* computed by the pipeline are 1 or 2.
Tables == UNION {[cols -> {0}] : cols \in SUBSET TableCols}
ColumnValues == {1, 2}

Args ==
    [columns_to_pass : {None} \cup {Some(l) : l \in ColumnLists},
     pass_dataframe_as : {None, Some("df")},
     on_input : {None, Some("df")},
     select : {None} \cup {Some(l) : l \in SelectLists},
     namespace : {None, Some("ns")}]

-----------------------------------------------------------------------------
\* The instance before with_columns_base.__init__ has run.
Uninitialised ==
    [initialised |-> FALSE, select |-> None, initial_schema |-> <<>>,
     target_dataframe |-> None, namespace |-> None, dataframe_type |-> "unset"]

\* with_columns_base.__init__: stores the configuration; columns_to_pass and
\* on_input are mutually exclusive, an absent columns_to_pass is an empty
\* extraction list.
with_columns_base_init(a, dataframe_type) ==
    IF a.columns_to_pass # None /\ a.on_input # None
    THEN [err |-> "ConfigurationError", self |-> Uninitialised]
    ELSE [err |-> "ok",
          self |-> [initialised |-> TRUE,
                    select |-> a.select,
                    initial_schema |->
                        IF a.columns_to_pass = None THEN <<>> ELSE Val(a.columns_to_pass),
                    target_dataframe |-> a.on_input,
                    namespace |-> a.namespace,
                    dataframe_type |-> dataframe_type]]

\* A plausible slip: the base configuration is stored first and the
\* unsupported option is only looked at afterwards.
with_columns_init_late_check(a) ==
    LET r == with_columns_base_init(a, DATAFRAME_TYPE) IN
    IF r.err = "ok" /\ a.pass_dataframe_as # None
    THEN [err |-> "NotImplementedError", self |-> r.self]
    ELSE r

\* with_columns.__init__
with_columns_init(a) ==
    IF a.pass_dataframe_as # None
    THEN [err |-> "NotImplementedError", self |-> Uninitialised]
    ELSE with_columns_base_init(a, DATAFRAME_TYPE)

-----------------------------------------------------------------------------
\* Registered table types, as the parameter resolver sees them.
TABLE_TYPES == {DATAFRAME_TYPE}

\* recursive._default_inject_parameter: on_input when it is configured,
\* otherwise the function's first table-typed parameter.
_default_inject_parameter(fn, target_dataframe) ==
    IF target_dataframe # None
    THEN [err |-> "ok", name |-> Val(target_dataframe)]
    ELSE IF \E i \in 1..Len(fn) : fn[i][2] \in TABLE_TYPES
         THEN [err |-> "ok",
               name |-> fn[CHOOSE i \in 1..Len(fn) :
                              /\ fn[i][2] \in TABLE_TYPES
                              /\ \A j \in 1..(i - 1) : fn[j][2] \notin TABLE_TYPES][1]]
         ELSE [err |-> "ConfigurationError", name |-> ""]

\* with_columns_base.validate_dataframe: the injection parameter must be a
\* parameter and its declared type must be the table type.
validate_dataframe(fn, inject_parameter, params, required_type) ==
    IF inject_parameter \notin DOMAIN params THEN "ConfigurationError"
    ELSE IF params[inject_parameter] # required_type THEN "TypeMismatchError"
    ELSE "ok"

\* extract_columns(*columns).transform_node(node_, config, fn): the first
\* element reproduces the node, the rest yield one named column each.
extract_columns_transform_node(columns, node_) ==
    <<node_>> \o
    [i \in 1..Len(columns) |->
        Node(columns[i], get_column_type_from_df_type(node_.typ),
             (node_.name :> node_.typ))]

\* A plausible slip: the whole output of the extraction primitive is
\* returned, passthrough node included.
_create_column_nodes_keep_first(s, inject_parameter, params) ==
    extract_columns_transform_node(
        s.initial_schema,
        Node(inject_parameter, params[inject_parameter],
             (inject_parameter :> params[inject_parameter])))

\* with_columns._create_column_nodes
_create_column_nodes(s, inject_parameter, params) ==
    LET output_type == params[inject_parameter]
        temp_node == Node(inject_parameter, output_type,
                          (inject_parameter :> output_type))
        out_nodes == extract_columns_transform_node(s.initial_schema, temp_node)
    IN  SubSeq(out_nodes, 2, Len(out_nodes))

Raised(e) == [err |-> e, inject_parameter |-> None, nodes |-> <<>>]

\* A plausible slip: the column nodes are built before the table parameter
\* is validated, and are handed back even when validation fails.
get_initial_nodes_build_first(s, fn, params) ==
    LET r == _default_inject_parameter(fn, s.target_dataframe) IN
    IF r.err # "ok" THEN Raised(r.err)
    ELSE LET v == validate_dataframe(fn, r.name, params, s.dataframe_type)
             built == IF s.target_dataframe = None /\ r.name \in DOMAIN params
                      THEN _create_column_nodes(s, r.name, params)
                      ELSE <<>>
         IN  IF v # "ok"
             THEN [err |-> v, inject_parameter |-> None, nodes |-> built]
             ELSE [err |-> "ok", inject_parameter |-> Some(r.name), nodes |-> built]

\* A plausible slip: the test on target_dataframe is inverted.
get_initial_nodes_inverted(s, fn, params) ==
    LET r == _default_inject_parameter(fn, s.target_dataframe) IN
    IF r.err # "ok" THEN Raised(r.err)
    ELSE LET v == validate_dataframe(fn, r.name, params, s.dataframe_type) IN
         IF v # "ok" THEN Raised(v)
         ELSE [err |-> "ok",
               inject_parameter |-> Some(r.name),
               nodes |-> IF s.target_dataframe = None
                         THEN <<>>
                         ELSE _create_column_nodes(s, r.name, params)]

\* with_columns.get_initial_nodes
get_initial_nodes(s, fn, params) ==
    LET r == _default_inject_parameter(fn, s.target_dataframe) IN
    IF r.err # "ok" THEN Raised(r.err)
    ELSE LET v == validate_dataframe(fn, r.name, params, s.dataframe_type) IN
         IF v # "ok" THEN Raised(v)
         ELSE [err |-> "ok",
               inject_parameter |-> Some(r.name),
               nodes |-> IF s.target_dataframe # None
                         THEN <<>>
                         ELSE _create_column_nodes(s, r.name, params)]

\* with_columns.validate
validate(s, fn) ==
    LET r == _default_inject_parameter(fn, s.target_dataframe) IN
    IF r.err # "ok" THEN r.err
    ELSE validate_dataframe(fn, r.name, get_type_hints(fn), s.dataframe_type)

\* subdag.collect_nodes(config, subdag_functions): the node lists the
\* configured operations can resolve to.
collect_nodes == NodeLists

\* with_columns.get_subdag_nodes
get_subdag_nodes(s) == collect_nodes

-----------------------------------------------------------------------------
\* The default selection: names of the generated nodes of column type, in
\* the order of the list (lines 205-209).
DefaultSelect(s, generated_nodes) ==
    LET IsColumn(n) == n.typ = get_column_type_from_df_type(s.dataframe_type)
    IN  NodeNamesOf(SelectSeq(generated_nodes, IsColumn))

\* A plausible slip: the entry of the injection parameter is written with
\* the column type.
chain_subdag_nodes_inject_as_column(s, inject_parameter, generated_nodes) ==
    LET select == IF s.select = None
                  THEN DefaultSelect(s, generated_nodes)
                  ELSE Val(s.select)
        column_type == get_column_type_from_df_type(s.dataframe_type)
        input_map == [column \in Range(select) \cup {inject_parameter} |-> column_type]
        merge == Node("_append", s.dataframe_type, input_map)
    IN  [self |-> [s EXCEPT !.select = Some(select)],
         merge_node |-> merge,
         output_nodes |-> generated_nodes \o <<merge>>,
         sink |-> merge.name]

\* with_columns.chain_subdag_nodes: self.select is filled in when it is None,
\* the merge node is appended to the generated nodes.
chain_subdag_nodes(s, inject_parameter, generated_nodes) ==
    LET select == IF s.select = None
                  THEN DefaultSelect(s, generated_nodes)
                  ELSE Val(s.select)
        column_type == get_column_type_from_df_type(s.dataframe_type)
        input_map == [column \in Range(select) \cup {inject_parameter} |->
                         IF column = inject_parameter
                         THEN s.dataframe_type
                         ELSE column_type]
        merge == Node("_append", s.dataframe_type, input_map)
    IN  [self |-> [s EXCEPT !.select = Some(select)],
         merge_node |-> merge,
         output_nodes |-> generated_nodes \o <<merge>>,
         sink |-> merge.name]

\* pandas DataFrame.assign(**columns): a new table with the given columns
\* set, the other columns kept.
assign(df, columns) ==
    [c \in DOMAIN df \cup DOMAIN columns |->
        IF c \in DOMAIN columns THEN columns[c] ELSE df[c]]

\* A plausible slip: columns the table already has are not overwritten.
new_callable_no_overwrite(s, inject_parameter, kwargs) ==
    LET df == kwargs[inject_parameter]
        columns_to_append ==
            [column \in Range(Val(s.select)) \ DOMAIN df |-> kwargs[column]]
    IN  assign(df, columns_to_append)

\* new_callable, the implementation of the merge node; it reads self.select
\* when it runs.
new_callable(s, inject_parameter, kwargs) ==
    LET df == kwargs[inject_parameter]
        columns_to_append == [column \in Range(Val(s.select)) |-> kwargs[column]]
    IN  assign(df, columns_to_append)

-----------------------------------------------------------------------------
\* State.
\*   pc          "new" before construction, "ready" once __init__ returned,
\*               "failed" when __init__ raised
\*   args        the arguments __init__ was called with
\*   self        the fields of the instance
\*   build       the graph build in progress: what the caller holds between
\*               get_initial_nodes, get_subdag_nodes and chain_subdag_nodes
\*   ret         the last call: its arguments and what it returned or raised

NoArgs ==
    [columns_to_pass |-> None, pass_dataframe_as |-> None, on_input |-> None,
     select |-> None, namespace |-> None]

NoRet ==
    [op |-> "none", err |-> "ok", fn |-> <<>>, params |-> EmptyMap,
     inject_parameter |-> None, generated_nodes |-> <<>>, nodes |-> <<>>,
     sink |-> None, kwargs |-> EmptyMap, out |-> EmptyMap]

Idle == [stage |-> "idle", inject_parameter |-> "", nodes |-> <<>>]

Init ==
    /\ pc = "new"
    /\ args = NoArgs
    /\ self = Uninitialised
    /\ build = Idle
    /\ ret = NoRet

\* The decorator is instantiated.
Construct ==
    /\ pc = "new"
    /\ \E a \in Args :
        LET r == with_columns_init(a) IN
        /\ args' = a
        /\ self' = r.self
        /\ pc' = IF r.err = "ok" THEN "ready" ELSE "failed"
        /\ ret' = [NoRet EXCEPT !.op = "__init__", !.err = r.err]
    /\ UNCHANGED build

\* The framework validates the decorated function.
Validate ==
    /\ pc = "ready"
    /\ ret.op = "none"
    /\ build.stage = "idle"
    /\ \E fn \in Fns :
        ret' = [NoRet EXCEPT !.op = "validate", !.fn = fn,
                             !.params = get_type_hints(fn),
                             !.err = validate(self, fn)]
    /\ UNCHANGED <<pc, args, self, build>>

\* A graph build starts: the table parameter is resolved and the columns
\* are extracted. An exception ends the build.
GetInitialNodes ==
    /\ pc = "ready"
    /\ ret.op = "none"
    /\ build.stage = "idle"
    /\ \E fn \in Fns : \E params \in ParamMaps(fn) :
        LET r == get_initial_nodes(self, fn, params) IN
        /\ ret' = [NoRet EXCEPT !.op = "get_initial_nodes", !.fn = fn,
                                !.params = params, !.err = r.err,
                                !.inject_parameter = r.inject_parameter,
                                !.nodes = r.nodes]
        /\ build' = IF r.err = "ok"
                    THEN [stage |-> "initial",
                          inject_parameter |-> Val(r.inject_parameter),
                          nodes |-> r.nodes]
                    ELSE Idle
    /\ UNCHANGED <<pc, args, self>>

\* The build collects the pipeline nodes and adds them to the extracted ones.
GetSubdagNodes ==
    /\ pc = "ready"
    /\ ret.op = "none"
    /\ build.stage = "initial"
    /\ \E nodes \in get_subdag_nodes(self) :
        /\ ret' = [NoRet EXCEPT !.op = "get_subdag_nodes", !.nodes = nodes]
        /\ build' = [build EXCEPT !.stage = "subdag", !.nodes = @ \o nodes]
    /\ UNCHANGED <<pc, args, self>>

\* The build ends with the merge node chained after the generated nodes;
\* the caller holds the returned node list, whose last node is the merge node.
ChainSubdagNodes ==
    /\ pc = "ready"
    /\ ret.op = "none"
    /\ build.stage = "subdag"
    /\ LET r == chain_subdag_nodes(self, build.inject_parameter, build.nodes) IN
        /\ self' = r.self
        /\ build' = [build EXCEPT !.stage = "chained", !.nodes = r.output_nodes]
        /\ ret' = [NoRet EXCEPT !.op = "chain_subdag_nodes",
                                !.inject_parameter = Some(build.inject_parameter),
                                !.generated_nodes = build.nodes,
                                !.nodes = r.output_nodes,
                                !.sink = Some(r.sink)]
    /\ UNCHANGED <<pc, args>>

\* The execution engine runs the merge node of the built graph: one value
\* per declared input, the table for the injection parameter.
CallMerge ==
    /\ pc = "ready"
    /\ ret.op = "none"
    /\ build.stage = "chained"
    /\ LET merge_node == build.nodes[Len(build.nodes)]
           inputs == DOMAIN merge_node.input_types
       IN  \E df \in Tables :
           \E values \in [inputs \ {build.inject_parameter} -> ColumnValues] :
             LET kwargs == [n \in inputs |->
                               IF n = build.inject_parameter THEN df ELSE values[n]]
             IN  ret' = [NoRet EXCEPT !.op = "_append",
                                      !.inject_parameter = Some(build.inject_parameter),
                                      !.kwargs = kwargs,
                                      !.out = new_callable(self, build.inject_parameter, kwargs)]
    /\ build' = Idle
    /\ UNCHANGED <<pc, args, self>>

\* The caller has taken the result of the last call.
Return ==
    /\ pc = "ready"
    /\ ret.op # "none"
    /\ ret' = NoRet
    /\ UNCHANGED <<pc, args, self, build>>

Next ==
    \/ Construct
    \/ Return
    \/ Validate
    \/ GetInitialNodes
    \/ GetSubdagNodes
    \/ ChainSubdagNodes
    \/ CallMerge

Spec == Init /\ [][Next]_vars

-----------------------------------------------------------------------------
\* Properties.

\* What the last chain_subdag_nodes call built.
Chained == ret.op = "chain_subdag_nodes"
MergeNode == ret.nodes[Len(ret.nodes)]
Selection == Val(self.select)
Inject == Val(ret.inject_parameter)

\* C1: constructing with pass_dataframe_as set raises NotImplementedError
\* whatever the other options are, with the base configuration not
\* initialised and no node built.
C1_PassDataframeAsRejected ==
    args.pass_dataframe_as # None =>
        /\ pc = "failed"
        /\ ret.op = "__init__"
        /\ ret.err = "NotImplementedError"
        /\ self = Uninitialised
        /\ build = Idle
        /\ ret.nodes = <<>>

C1_Witness ==
    /\ pc = "failed"
    /\ args.pass_dataframe_as # None
    /\ args.columns_to_pass # None
    /\ args.on_input # None

\* C2: constructed without select, every chain_subdag_nodes call selects the
\* names of the column-typed nodes of the node set passed to that call, in
\* the order of the set.
C2_DefaultSelectionOfOwnNodes ==
    (Chained /\ args.select = None) =>
        Selection = DefaultSelect(self, ret.generated_nodes)

\* C3 as stated: for a selection of unique names and any injection
\* parameter, the merge node's input map has len(select) + 1 entries, the
\* injection parameter of table type and every selected name of column type.
C3_InputMapAnyInject ==
    (Chained /\ IsUnique(Selection)) =>
        /\ Cardinality(DOMAIN MergeNode.input_types) = Len(Selection) + 1
        /\ MergeNode.input_types[Inject] = DATAFRAME_TYPE
        /\ \A c \in Range(Selection) : MergeNode.input_types[c] = COLUMN_TYPE

\* C3 amended: the same, for a selection of unique names that does not
\* contain the injection parameter.
C3_InputMap ==
    (Chained /\ IsUnique(Selection) /\ Inject \notin Range(Selection)) =>
        /\ Cardinality(DOMAIN MergeNode.input_types) = Len(Selection) + 1
        /\ MergeNode.input_types[Inject] = DATAFRAME_TYPE
        /\ \A c \in Range(Selection) : MergeNode.input_types[c] = COLUMN_TYPE

C3_Witness ==
    /\ Chained
    /\ Len(Selection) = 2
    /\ IsUnique(Selection)
    /\ Inject \notin Range(Selection)

\* C4: without on_input, get_initial_nodes returns one node per name of
\* columns_to_pass, in that order, each of column type, and nothing else:
\* the passthrough node of the injection parameter is not returned.
C4_ExtractionFidelity ==
    (ret.op = "get_initial_nodes" /\ ret.err = "ok" /\ self.target_dataframe = None) =>
        /\ Len(ret.nodes) = Len(self.initial_schema)
        /\ \A i \in 1..Len(ret.nodes) :
            /\ ret.nodes[i].name = self.initial_schema[i]
            /\ ret.nodes[i].typ = COLUMN_TYPE
        /\ \A i \in 1..Len(ret.nodes) :
            ~(ret.nodes[i].name = Inject /\ ret.nodes[i].typ = DATAFRAME_TYPE)

C4_Witness ==
    /\ ret.op = "get_initial_nodes"
    /\ ret.err = "ok"
    /\ self.target_dataframe = None
    /\ self.initial_schema = <<"a", "b">>
    /\ Len(ret.nodes) = 2

\* C5: the merge node is named _append and is of table type; run on a table
\* and one value per selected name, it returns a table where every selected
\* name holds the supplied value and every other column of the table is
\* unchanged.
C5_MergeAssigns ==
    /\ Chained =>
        /\ MergeNode.name = "_append"
        /\ MergeNode.typ = DATAFRAME_TYPE
        /\ ret.sink = Some("_append")
    /\ ret.op = "_append" =>
        LET df == ret.kwargs[Inject] IN
        /\ DOMAIN ret.out = DOMAIN df \cup Range(Selection)
        /\ \A c \in Range(Selection) : ret.out[c] = ret.kwargs[c]
        /\ \A c \in DOMAIN df \ Range(Selection) : ret.out[c] = df[c]

C5_Witness ==
    /\ ret.op = "_append"
    /\ "a" \in Range(Selection)
    /\ "a" \in DOMAIN ret.kwargs[Inject]
    /\ "c" \in DOMAIN ret.kwargs[Inject]
    /\ \E c \in Range(Selection) : c \notin DOMAIN ret.kwargs[Inject]

\* C6: every input of the merge node other than the injection parameter
\* is the name of a node of the returned list.
C6_MergeInputsDefined ==
    Chained =>
        \A n \in DOMAIN MergeNode.input_types \ {Inject} :
            \E i \in 1..Len(ret.nodes) : ret.nodes[i].name = n

\* C7: the node names of the list returned by chain_subdag_nodes are
\* pairwise distinct.
C7_NodeNamesUnique ==
    Chained => IsUnique(NodeNamesOf(ret.nodes))

\* C8: when the declared type of the resolved injection parameter is not
\* the table type, validate and get_initial_nodes raise the same error, a
\* function of the arguments alone, and get_initial_nodes leaves no node
\* and no build behind.
C8_TypeMismatchRaises ==
    LET r == _default_inject_parameter(ret.fn, self.target_dataframe) IN
    (/\ ret.op \in {"validate", "get_initial_nodes"}
     /\ r.err = "ok"
     /\ r.name \in DOMAIN ret.params
     /\ ret.params[r.name] # DATAFRAME_TYPE) =>
        /\ ret.err = "TypeMismatchError"
        /\ ret.inject_parameter = None
        /\ ret.nodes = <<>>
        /\ build = Idle

C8_Witness ==
    /\ ret.op = "get_initial_nodes"
    /\ ret.err = "TypeMismatchError"
    /\ self.target_dataframe = None
    /\ Len(self.initial_schema) = 2

\* C9: the configuration of a constructed instance stays what __init__
\* stored, whatever entry points have been called since.
C9_ConfigurationImmutable ==
    pc = "ready" => self = with_columns_init(args).self

====
